---- MODULE Spec2Model ----
(***************************************************************************)
(* The comoco dashboard store (core4/webapps/comoco/src/store.js): a Vuex  *)
(* store driven by the event stream of one WebSocket plugin.  Every        *)
(* mutation of the store is one action; the getters are operators over the *)
(* state.                                                                   *)
(*                                                                         *)
(* Encodings of JavaScript values:                                         *)
(*   - an object is a function from its keys (strings) to its values; {}   *)
(*     is the function with the empty domain;                              *)
(*   - an array is a sequence;                                             *)
(*   - NaN is encoded as -1 (weights are counts, never negative);          *)
(*   - '' as the initial socket.message is the message NoMessage.          *)
(***************************************************************************)
EXTENDS Integers, Sequences, FiniteSets

(***************************************************************************)
(* Bounds of the model.                                                    *)
(***************************************************************************)
\* longest job list of a message
MaxJobs == 2
\* number of WebSocket objects the plugin opens (each opens at most once)
MaxSockets == 2
\* longest list of state names given to getStateCounter
MaxNames == 2

(***************************************************************************)
(* settings.js and helper.js                                               *)
(***************************************************************************)
\* job state -> group name
jobStates ==
  [s \in {"pending", "deferred", "running", "error"} |->
     CASE s = "pending" -> "waiting"
       [] s = "deferred" -> "waiting"
       [] s = "running" -> "running"
       [] s = "error" -> "stopped"]

jobGroups == <<"waiting", "running", "stopped">>

createObjectWithDefaultValues(obj) == [k \in DOMAIN obj |-> 0]

(***************************************************************************)
(* JavaScript arithmetic on the counters of stat.                          *)
(***************************************************************************)
NaN == 0 - 1

\* a + b of two numbers
JsAdd(a, b) == IF a = NaN \/ b = NaN THEN NaN ELSE a + b

EmptyObject == [k \in {} |-> 0]

\* pnbi-base/core4/helper clone: a deep copy of a list of job objects
clone(list) == [i \in 1..Len(list) |-> [f \in DOMAIN list[i] |-> list[i][f]]]

(***************************************************************************)
(* The inputs: jobs, job lists, messages.                                  *)
(***************************************************************************)
\* the state label "complete" is not configured in jobStates
Jobs ==
  { [state |-> "pending", n |-> 2],
    [state |-> "deferred", n |-> 1],
    [state |-> "complete", n |-> 3] }

JobLists == UNION { [1..k -> Jobs] : k \in 0..MaxJobs }

Timestamps == {10, 20}

SummaryMessages ==
  { [name |-> "summary", created |-> t, data |-> d] : t \in Timestamps, d \in JobLists }

\* messages of any other name; they may carry jobs as well
OtherMessages ==
  { [name |-> "ping", created |-> 10, data |-> d] :
      d \in { <<>>, <<[state |-> "pending", n |-> 2]>> } }

Messages == SummaryMessages \cup OtherMessages

NoMessage == [name |-> "", created |-> 0, data |-> <<>>]

Interest == [type |-> "interest", data |-> <<"queue">>]

NoSocket == 0

VARIABLES
  queue,        \* state.queue
  socket,       \* state.socket: isConnected, message, reconnectError
  vueSocket,    \* Vue.prototype.$socket
  outbox,       \* the sendObj calls made so far: <<[socket, obj], ...>>
  opened,       \* environment: number of WebSocket objects opened so far
  lastEvent,    \* history: the event committed last ("" if none)
  lastSummary,  \* history: data of the last message named 'summary'
  lastConn,     \* history: the last of SOCKET_ONOPEN / SOCKET_ONCLOSE ("" if none)
  errorSeen,    \* history: a SOCKET_RECONNECT_ERROR has been committed
  superseded,   \* history: a snapshot has been followed by a different one
  lastMessage   \* history: the message received last (NoMessage if none)

vars == <<queue, socket, vueSocket, outbox, opened, lastEvent, lastSummary, lastConn, errorSeen,
          superseded, lastMessage>>

(***************************************************************************)
(* groupDataAndJobStat                                                     *)
(***************************************************************************)
\* the body of arr.forEach, folded over arr from the left
RECURSIVE forEachJob(_, _, _, _)
forEachJob(arr, groupingKey, groupsDict, initialState) ==
  IF Len(arr) = 0
  THEN [groupsDict |-> groupsDict, initialState |-> initialState]
  ELSE LET job == Head(arr)
           jobState == job[groupingKey]
           group == IF jobState \in DOMAIN jobStates THEN jobStates[jobState] ELSE "other"
           pushed ==
             [g \in DOMAIN groupsDict \cup {group} |->
                IF g = group
                THEN Append(IF g \in DOMAIN groupsDict THEN groupsDict[g] ELSE <<>>, job)
                ELSE groupsDict[g]]
           \* undefined + n is NaN
           counted ==
             [s \in DOMAIN initialState \cup {jobState} |->
                IF s = jobState
                THEN IF s \in DOMAIN initialState
                     THEN JsAdd(initialState[s], job["n"])
                     ELSE NaN
                ELSE initialState[s]]
       IN forEachJob(Tail(arr), groupingKey, pushed, counted)

\* a variant that puts each job at the front of its group list (unshift for push)
RECURSIVE forEachJob_unshift(_, _, _, _)
forEachJob_unshift(arr, groupingKey, groupsDict, initialState) ==
  IF Len(arr) = 0
  THEN [groupsDict |-> groupsDict, initialState |-> initialState]
  ELSE LET job == Head(arr)
           jobState == job[groupingKey]
           group == IF jobState \in DOMAIN jobStates THEN jobStates[jobState] ELSE "other"
           pushed ==
             [g \in DOMAIN groupsDict \cup {group} |->
                IF g = group
                THEN <<job>> \o (IF g \in DOMAIN groupsDict THEN groupsDict[g] ELSE <<>>)
                ELSE groupsDict[g]]
           counted ==
             [s \in DOMAIN initialState \cup {jobState} |->
                IF s = jobState
                THEN IF s \in DOMAIN initialState
                     THEN JsAdd(initialState[s], job["n"])
                     ELSE NaN
                ELSE initialState[s]]
       IN forEachJob_unshift(Tail(arr), groupingKey, pushed, counted)

groupDataAndJobStat_unshift(created, arr, groupingKey) ==
  LET done == forEachJob_unshift(arr, groupingKey, EmptyObject,
                                 createObjectWithDefaultValues(jobStates))
  IN [k \in {"stat"} \cup DOMAIN done.groupsDict |->
        IF k \in DOMAIN done.groupsDict THEN done.groupsDict[k] ELSE done.initialState]

\* a variant that forgets the fallback group: jobStates[jobState] alone is the key
groupDataAndJobStat_noFallback(created, arr, groupingKey) ==
  LET done == forEachJob(arr, groupingKey, EmptyObject, createObjectWithDefaultValues(jobStates))
      keyOf(g) == IF g = "other" THEN "undefined" ELSE g
  IN [k \in {"stat"} \cup { keyOf(g) : g \in DOMAIN done.groupsDict } |->
        IF k = "stat" THEN done.initialState
        ELSE IF k = "undefined" THEN done.groupsDict["other"]
        ELSE done.groupsDict[k]]

groupDataAndJobStat(created, arr, groupingKey) ==
  LET done == forEachJob(arr, groupingKey, EmptyObject, createObjectWithDefaultValues(jobStates))
  IN [k \in {"stat"} \cup DOMAIN done.groupsDict |->
        IF k \in DOMAIN done.groupsDict THEN done.groupsDict[k] ELSE done.initialState]

(***************************************************************************)
(* The store                                                               *)
(***************************************************************************)
Init ==
  /\ queue = EmptyObject
  /\ socket = [isConnected |-> FALSE, message |-> NoMessage, reconnectError |-> FALSE]
  /\ vueSocket = NoSocket
  /\ outbox = <<>>
  /\ opened = 0
  /\ lastEvent = ""
  /\ lastSummary = [seen |-> FALSE, data |-> <<>>]
  /\ lastConn = ""
  /\ errorSeen = FALSE
  /\ superseded = FALSE
  /\ lastMessage = NoMessage

\* a variant that marks the socket connected without subscribing
SOCKET_ONOPEN_noInterest(event) ==
  /\ opened < MaxSockets
  /\ event.currentTarget = opened + 1
  /\ opened' = opened + 1
  /\ vueSocket' = event.currentTarget
  /\ socket' = [socket EXCEPT !.isConnected = TRUE]
  /\ lastEvent' = "SOCKET_ONOPEN"
  /\ lastConn' = "SOCKET_ONOPEN"
  /\ UNCHANGED <<queue, outbox, lastSummary, errorSeen, superseded, lastMessage>>

\* event.currentTarget is the WebSocket that opened: a fresh one each time
SOCKET_ONOPEN(event) ==
  /\ opened < MaxSockets
  /\ event.currentTarget = opened + 1
  /\ opened' = opened + 1
  /\ vueSocket' = event.currentTarget
  /\ outbox' = Append(outbox, [socket |-> vueSocket', obj |-> Interest])
  /\ socket' = [socket EXCEPT !.isConnected = TRUE]
  /\ lastEvent' = "SOCKET_ONOPEN"
  /\ lastConn' = "SOCKET_ONOPEN"
  /\ UNCHANGED <<queue, lastSummary, errorSeen, superseded, lastMessage>>

\* a variant that drops the snapshot when the socket closes
SOCKET_ONCLOSE_clearsQueue ==
  /\ socket' = [socket EXCEPT !.isConnected = FALSE]
  /\ queue' = EmptyObject
  /\ lastEvent' = "SOCKET_ONCLOSE"
  /\ lastConn' = "SOCKET_ONCLOSE"
  /\ UNCHANGED <<vueSocket, outbox, opened, lastSummary, errorSeen, superseded, lastMessage>>

\* a variant that leaves isConnected as it is
SOCKET_ONCLOSE_staysConnected ==
  /\ lastEvent' = "SOCKET_ONCLOSE"
  /\ lastConn' = "SOCKET_ONCLOSE"
  /\ UNCHANGED <<queue, socket, vueSocket, outbox, opened, lastSummary, errorSeen, superseded, lastMessage>>

SOCKET_ONCLOSE ==
  /\ socket' = [socket EXCEPT !.isConnected = FALSE]
  /\ lastEvent' = "SOCKET_ONCLOSE"
  /\ lastConn' = "SOCKET_ONCLOSE"
  /\ UNCHANGED <<queue, vueSocket, outbox, opened, lastSummary, errorSeen, superseded, lastMessage>>

\* a variant that treats an error as a disconnect
SOCKET_ONERROR_disconnects ==
  /\ socket' = [socket EXCEPT !.isConnected = FALSE]
  /\ lastEvent' = "SOCKET_ONERROR"
  /\ UNCHANGED <<queue, vueSocket, outbox, opened, lastSummary, lastConn, errorSeen, superseded, lastMessage>>

SOCKET_ONERROR ==
  /\ lastEvent' = "SOCKET_ONERROR"
  /\ UNCHANGED <<queue, socket, vueSocket, outbox, opened, lastSummary, lastConn, errorSeen,
               superseded, lastMessage>>

\* a variant that groups the data of every message, whatever its name
SOCKET_ONMESSAGE_anyName(message) ==
  /\ socket' = [socket EXCEPT !.message = message]
  /\ queue' = groupDataAndJobStat(message.created, message.data, "state")
  /\ IF message.name = "summary"
     THEN /\ lastSummary' = [seen |-> TRUE, data |-> message.data]
          /\ superseded' = (superseded \/ (lastSummary.seen /\ lastSummary.data # message.data))
     ELSE UNCHANGED <<lastSummary, superseded>>
  /\ lastEvent' = "SOCKET_ONMESSAGE"
  /\ lastMessage' = message
  /\ UNCHANGED <<vueSocket, outbox, opened, lastConn, errorSeen>>

\* a variant that merges the snapshot into the prior queue instead of replacing it
SOCKET_ONMESSAGE_merge(message) ==
  /\ socket' = [socket EXCEPT !.message = message]
  /\ IF message.name = "summary"
     THEN /\ LET new == groupDataAndJobStat(message.created, message.data, "state")
             IN queue' = [k \in DOMAIN queue \cup DOMAIN new |->
                            IF k \in DOMAIN new THEN new[k] ELSE queue[k]]
          /\ lastSummary' = [seen |-> TRUE, data |-> message.data]
          /\ superseded' = (superseded \/ (lastSummary.seen /\ lastSummary.data # message.data))
     ELSE UNCHANGED <<queue, lastSummary, superseded>>
  /\ lastEvent' = "SOCKET_ONMESSAGE"
  /\ lastMessage' = message
  /\ UNCHANGED <<vueSocket, outbox, opened, lastConn, errorSeen>>

SOCKET_ONMESSAGE(message) ==
  /\ socket' = [socket EXCEPT !.message = message]
  /\ IF message.name = "summary"
     THEN /\ queue' = groupDataAndJobStat(message.created, message.data, "state")
          /\ lastSummary' = [seen |-> TRUE, data |-> message.data]
          /\ superseded' = (superseded \/ (lastSummary.seen /\ lastSummary.data # message.data))
     ELSE UNCHANGED <<queue, lastSummary, superseded>>
  /\ lastEvent' = "SOCKET_ONMESSAGE"
  /\ lastMessage' = message
  /\ UNCHANGED <<vueSocket, outbox, opened, lastConn, errorSeen>>

\* a variant that flags every reconnect attempt as an error
SOCKET_RECONNECT_flagsError ==
  /\ socket' = [socket EXCEPT !.reconnectError = TRUE]
  /\ lastEvent' = "SOCKET_RECONNECT"
  /\ UNCHANGED <<queue, vueSocket, outbox, opened, lastSummary, lastConn, errorSeen, superseded, lastMessage>>

SOCKET_RECONNECT ==
  /\ lastEvent' = "SOCKET_RECONNECT"
  /\ UNCHANGED <<queue, socket, vueSocket, outbox, opened, lastSummary, lastConn, errorSeen,
               superseded, lastMessage>>

SOCKET_RECONNECT_ERROR ==
  /\ socket' = [socket EXCEPT !.reconnectError = TRUE]
  /\ lastEvent' = "SOCKET_RECONNECT_ERROR"
  /\ errorSeen' = TRUE
  /\ UNCHANGED <<queue, vueSocket, outbox, opened, lastSummary, lastConn, superseded, lastMessage>>

Next ==
  \/ \E ws \in 1..MaxSockets : SOCKET_ONOPEN([currentTarget |-> ws])
  \/ SOCKET_ONCLOSE
  \/ SOCKET_ONERROR
  \/ \E message \in Messages : SOCKET_ONMESSAGE(message)
  \/ SOCKET_RECONNECT
  \/ SOCKET_RECONNECT_ERROR

Spec == Init /\ [][Next]_vars

(***************************************************************************)
(* The getters                                                             *)
(***************************************************************************)
\* the elements of an array
Elements(arr) == { arr[i] : i \in 1..Len(arr) }

\* a variant whose getters all read the group of the first name
mapGettersJobGroups_firstGroup(arr) ==
  [currentItem \in Elements(arr) |->
     clone(IF arr[1] \in DOMAIN queue THEN queue[arr[1]] ELSE <<>>)]

\* one getter per group name: clone(state.queue[name] || [])
mapGettersJobGroups(arr) ==
  [currentItem \in Elements(arr) |->
     clone(IF currentItem \in DOMAIN queue THEN queue[currentItem] ELSE <<>>)]

getters == mapGettersJobGroups(jobGroups)

getJobsByGroupName(groupName) == getters[groupName]

\* the lists of state names getStateCounter is called with; "error" is
\* configured, "complete" is not
StateNames == {"pending", "deferred", "complete", "error"}

StateNameLists == UNION { [1..k -> StateNames] : k \in 0..MaxNames }

\* stat[currentItem] || 0: undefined, NaN and 0 all give 0
countOrZero(stat, currentItem) ==
  IF currentItem \in DOMAIN stat /\ stat[currentItem] # NaN THEN stat[currentItem] ELSE 0

\* stateName.reduce(..., 0), folded from the left
RECURSIVE reduceStateCounter(_, _)
reduceStateCounter(stateName, previousValue) ==
  IF Len(stateName) = 0 THEN previousValue
  ELSE reduceStateCounter(Tail(stateName),
                          JsAdd(previousValue, countOrZero(queue["stat"], Head(stateName))))

\* a variant without the || 0: an absent count is undefined, and the sum NaN
RECURSIVE reduceStateCounter_noDefault(_, _)
reduceStateCounter_noDefault(stateName, previousValue) ==
  IF Len(stateName) = 0 THEN previousValue
  ELSE reduceStateCounter_noDefault(
         Tail(stateName),
         JsAdd(previousValue,
               IF Head(stateName) \in DOMAIN queue["stat"]
               THEN queue["stat"][Head(stateName)] ELSE NaN))

getStateCounter_noDefault(stateName) ==
  IF "stat" \notin DOMAIN queue THEN 0 ELSE reduceStateCounter_noDefault(stateName, 0)

getStateCounter(stateName) ==
  IF "stat" \notin DOMAIN queue THEN 0 ELSE reduceStateCounter(stateName, 0)

(***************************************************************************)
(* Vocabulary of the properties                                            *)
(***************************************************************************)
\* the group a job belongs to by the configuration
GroupOf(job) ==
  IF job.state \in DOMAIN jobStates THEN jobStates[job.state] ELSE "other"

\* the group lists of state.queue: every key but stat
GroupNames == DOMAIN queue \ {"stat"}

GroupList(g) == IF g \in GroupNames THEN queue[g] ELSE <<>>

\* how often job occurs in arr
Occurrences(arr, job) == Cardinality({ i \in 1..Len(arr) : arr[i] = job })

\* the state labels carried by the jobs of arr
Labels(arr) == { arr[i].state : i \in 1..Len(arr) }

\* the sum of the weights n of the jobs of arr whose state is one of labels
RECURSIVE SumOfWeights(_, _)
SumOfWeights(arr, labels) ==
  IF Len(arr) = 0 THEN 0
  ELSE (IF Head(arr).state \in labels THEN Head(arr).n ELSE 0)
       + SumOfWeights(Tail(arr), labels)

\* the JavaScript sum of the counts of a stat object
RECURSIVE SumOfCounts(_, _)
SumOfCounts(stat, keys) ==
  IF keys = {} THEN 0
  ELSE LET k == CHOOSE x \in keys : TRUE
       IN JsAdd(stat[k], SumOfCounts(stat, keys \ {k}))

\* the jobs of arr whose state maps to group g, in the order of arr
JobsOfGroup(arr, g) == SelectSeq(arr, LAMBDA job : GroupOf(job) = g)

(***************************************************************************)
(* Grouping and counting                                                   *)
(***************************************************************************)
\* C1: once a summary message M has been received, then after any further
\* events every job of M.data is in exactly one group list of state.queue,
\* the list of jobStates[job.state] or of 'other' when the state is not
\* configured, as often as it occurs in M.data; no group list holds a job that
\* is not in M.data.
C1_EveryJobInItsGroup ==
  lastSummary.seen =>
    /\ \A g \in GroupNames : Elements(queue[g]) \subseteq Elements(lastSummary.data)
    /\ \A job \in Elements(lastSummary.data) :
         \A g \in GroupNames \cup {GroupOf(job)} :
           Occurrences(GroupList(g), job) =
             IF g = GroupOf(job) THEN Occurrences(lastSummary.data, job) ELSE 0

\* a snapshot with a configured and an unconfigured job, grouped, and still
\* there after the socket closed
C1_Witness ==
  /\ lastSummary.seen
  /\ Labels(lastSummary.data) = {"pending", "complete"}
  /\ GroupNames = {"waiting", "other"}
  /\ lastEvent = "SOCKET_ONCLOSE"

\* C2: after a summary message M, stat[s] is the sum of the weights n of the
\* jobs of M.data in state s, for every state label s carried by a job of
\* M.data, and stat[s] is 0 for every configured state without a job.
C2_StatIsWeightPerState ==
  lastSummary.seen =>
    /\ "stat" \in DOMAIN queue
    /\ \A s \in Labels(lastSummary.data) :
         /\ s \in DOMAIN queue["stat"]
         /\ queue["stat"][s] = SumOfWeights(lastSummary.data, {s})
    /\ \A s \in DOMAIN jobStates \ Labels(lastSummary.data) : queue["stat"][s] = 0

\* C3: after a summary message M, the counts of stat add up to the sum of the
\* weights n of all jobs of M.data, jobs of unconfigured states included.
C3_CountsAddUpToWeights ==
  lastSummary.seen =>
    SumOfCounts(queue["stat"], DOMAIN queue["stat"])
      = SumOfWeights(lastSummary.data, Labels(lastSummary.data))

\* C4: once a summary message M has been received, state.queue is the
\* grouping of M.data alone, whatever its timestamp and whatever was received
\* or happened before.
C4_SnapshotReplacesQueue ==
  lastSummary.seen =>
    \A t \in Timestamps : queue = groupDataAndJobStat(t, lastSummary.data, "state")

\* a snapshot with two groups has been replaced by an empty one
C4_Witness ==
  /\ superseded
  /\ lastSummary.seen
  /\ lastSummary.data = <<>>
  /\ DOMAIN queue = {"stat"}
  /\ socket.message.name = "ping"

(***************************************************************************)
(* The connection                                                          *)
(***************************************************************************)
\* C5: every SOCKET_ONOPEN sends exactly one message, the interest in
\* 'queue', on the socket that just opened, and no other event sends
\* anything; so whenever socket.isConnected is true the interest has been
\* sent on the current socket.
C5_InterestSentOnOpen ==
  /\ [](socket.isConnected =>
          /\ vueSocket = opened
          /\ \E i \in 1..Len(outbox) : outbox[i] = [socket |-> vueSocket, obj |-> Interest])
  /\ [][ /\ lastEvent' = "SOCKET_ONOPEN" =>
              outbox' = Append(outbox, [socket |-> opened', obj |-> Interest])
         /\ lastEvent' # "SOCKET_ONOPEN" => outbox' = outbox ]_vars

\* connected again on a second socket after a close, with both interests sent
C5_Witness ==
  /\ socket.isConnected
  /\ opened = 2
  /\ Len(outbox) = 2
  /\ outbox[2].socket = 2
  /\ lastEvent = "SOCKET_ONOPEN"
  /\ errorSeen

\* C6: after a SOCKET_RECONNECT_ERROR has set socket.reconnectError, a
\* SOCKET_RECONNECT followed by a SOCKET_ONOPEN resets it to false.
C6_ReconnectResetsFlag ==
  [][ (socket.reconnectError /\ lastEvent = "SOCKET_RECONNECT" /\ lastEvent' = "SOCKET_ONOPEN")
        => ~socket'.reconnectError ]_vars

\* C7: socket.reconnectError is a boolean, false until a
\* SOCKET_RECONNECT_ERROR has occurred; SOCKET_RECONNECT_ERROR sets it to true
\* and changes neither queue nor socket.isConnected nor socket.message.
C7_ReconnectErrorFlag ==
  /\ [](socket.reconnectError \in BOOLEAN /\ (socket.reconnectError => errorSeen))
  /\ [][ lastEvent' = "SOCKET_RECONNECT_ERROR" =>
           /\ socket'.reconnectError = TRUE
           /\ queue' = queue
           /\ socket'.isConnected = socket.isConnected
           /\ socket'.message = socket.message ]_vars

\* the flag was just set on a connected socket that has a snapshot
C7_Witness ==
  /\ lastEvent = "SOCKET_RECONNECT_ERROR"
  /\ socket.reconnectError
  /\ socket.isConnected
  /\ lastSummary.seen

\* C8: socket.isConnected is true exactly when the last of SOCKET_ONOPEN and
\* SOCKET_ONCLOSE was SOCKET_ONOPEN (false when neither has occurred), and no
\* other event changes it.
C8_ConnectedIffLastOpened ==
  /\ [](socket.isConnected = (lastConn = "SOCKET_ONOPEN"))
  /\ [][ lastEvent' \notin {"SOCKET_ONOPEN", "SOCKET_ONCLOSE"} =>
           socket'.isConnected = socket.isConnected ]_vars

\* closed after the second open, then an error
C8_Witness ==
  /\ ~socket.isConnected
  /\ lastConn = "SOCKET_ONCLOSE"
  /\ opened = 2
  /\ lastEvent = "SOCKET_ONERROR"

\* C9: SOCKET_ONERROR and SOCKET_RECONNECT leave the whole store state as it
\* is: queue, socket.isConnected, socket.message and socket.reconnectError.
C9_ErrorOnlyLogged ==
  [][ lastEvent' \in {"SOCKET_ONERROR", "SOCKET_RECONNECT"} =>
        /\ queue' = queue
        /\ socket' = socket ]_vars

\* an error on a connected socket with a snapshot: still connected, no flag
C9_Witness ==
  /\ lastEvent = "SOCKET_ONERROR"
  /\ socket.isConnected
  /\ ~socket.reconnectError
  /\ lastSummary.seen
  /\ GroupNames # {}

(***************************************************************************)
(* The getters                                                             *)
(***************************************************************************)
\* C10: for every group name g of jobGroups the getter g and
\* getJobsByGroupName(g) return the same list, the jobs of the last summary
\* message whose state maps to g; it is empty when no summary message has been
\* received or the last one has no job in g.
C10_GroupGetters ==
  \A g \in Elements(jobGroups) :
    /\ getters[g] = getJobsByGroupName(g)
    /\ getJobsByGroupName(g) =
         IF lastSummary.seen THEN JobsOfGroup(lastSummary.data, g) ELSE <<>>

\* two jobs of two states in one group, none in another
C10_Witness ==
  /\ lastSummary.seen
  /\ Labels(lastSummary.data) = {"pending", "deferred"}
  /\ Len(getJobsByGroupName("waiting")) = 2
  /\ getJobsByGroupName("running") = <<>>

(***************************************************************************)
(* Messages and frame conditions                                           *)
(***************************************************************************)
\* C11: a message whose name is not 'summary' leaves state.queue unchanged,
\* and every message becomes socket.message; so socket.message is always the
\* message received last ('' if none) and state.queue is always the grouping
\* of the last summary message ({} if none).
C11_MessageAndQueueFollowStream ==
  /\ [](/\ socket.message = lastMessage
        /\ queue = IF lastSummary.seen
                   THEN groupDataAndJobStat(lastMessage.created, lastSummary.data, "state")
                   ELSE EmptyObject)
  /\ [][ lastEvent' = "SOCKET_ONMESSAGE" =>
           /\ socket'.message = lastMessage'
           /\ lastMessage'.name # "summary" => queue' = queue ]_vars

\* a message of another name, carrying a job, arrived after a snapshot
C11_Witness ==
  /\ lastEvent = "SOCKET_ONMESSAGE"
  /\ socket.message.name = "ping"
  /\ Len(socket.message.data) = 1
  /\ lastSummary.seen
  /\ Labels(lastSummary.data) = {"deferred", "complete"}
  /\ GroupNames = {"waiting", "other"}

\* C12: SOCKET_ONOPEN, SOCKET_ONCLOSE, SOCKET_ONERROR, SOCKET_RECONNECT and
\* SOCKET_RECONNECT_ERROR never modify state.queue or socket.message, so what
\* the getters show of the last snapshot stays the same across them.
C12_ConnectionEventsKeepSnapshot ==
  [][ lastEvent' \in {"SOCKET_ONOPEN", "SOCKET_ONCLOSE", "SOCKET_ONERROR",
                      "SOCKET_RECONNECT", "SOCKET_RECONNECT_ERROR"} =>
        /\ queue' = queue
        /\ socket'.message = socket.message
        /\ getters' = getters ]_vars

\* the snapshot received before the second socket opened is still shown by
\* the getters after it opened
C12_Witness ==
  /\ lastEvent = "SOCKET_ONOPEN"
  /\ opened = 2
  /\ socket.message.name = "summary"
  /\ Len(getJobsByGroupName("waiting")) = 2
  /\ errorSeen

\* the sum, over the names of the list, of the usable counts of stat
RECURSIVE SumOfUsableCounts(_, _)
SumOfUsableCounts(stat, names) ==
  IF Len(names) = 0 THEN 0
  ELSE (IF Head(names) \in DOMAIN stat /\ stat[Head(names)] \in Nat
        THEN stat[Head(names)] ELSE 0)
       + SumOfUsableCounts(stat, Tail(names))

C14_GroupingKeepsOrder ==
  lastSummary.seen =>
    /\ GroupNames = { GroupOf(job) : job \in Elements(lastSummary.data) }
    /\ \A g \in GroupNames : queue[g] = JobsOfGroup(lastSummary.data, g)

\* two different jobs of one group, the rest of the groups without an entry
C14_Witness ==
  /\ lastSummary.seen
  /\ lastSummary.data = <<[state |-> "deferred", n |-> 1], [state |-> "pending", n |-> 2]>>
  /\ DOMAIN queue = {"stat", "waiting"}
  /\ queue["waiting"][1].state = "deferred"
  /\ queue["waiting"][2].state = "pending"

====
